---- MODULE Spec2Model ----
(***************************************************************************)
(* Model of skills/project-manager/scripts/linear_sync.py: the             *)
(* LinearClient GraphQL client (query and its seven operations) and the    *)
(* command-line entry point main().                                        *)
(*                                                                         *)
(* The program is single-threaded and synchronous, so each operation is    *)
(* one atomic action: the caller's arguments and the response the          *)
(* transport hands back are the action's inputs, and the action records    *)
(* the request bodies that were POSTed and how the call ended.             *)
(***************************************************************************)
EXTENDS Integers, Sequences, FiniteSets, TLC

(***************************************************************************)
(* Python / JSON values, tagged with their type so that values of          *)
(* different types can be told apart: <<tag, payload>>.                    *)
(***************************************************************************)
Str(s) == <<"str", s>>
Num(n) == <<"int", n>>
Bool(b) == <<"bool", b>>
List(s) == <<"list", s>>
Dict(f) == <<"dict", f>>
None == <<"None", 0>>
\* A parameter the caller left out of the call (not a Python value: the
\* parameter's default is bound in its place).
NotGiven == <<"NotGiven", 0>>
\* A response body that is not JSON.
NotJSON == <<"invalid", 0>>
\* The empty mapping {}.
EmptyMap == <<>>

\* Python truthiness (bool(v)), as used by "if x:", "not x" and "x or y".
Truthy(v) ==
  CASE v[1] = "str" -> v[2] # ""
    [] v[1] = "int" -> v[2] # 0
    [] v[1] = "bool" -> v[2]
    [] v[1] = "list" -> Len(v[2]) > 0
    [] v[1] = "dict" -> DOMAIN v[2] # {}
    [] OTHER -> FALSE

\* The default of a parameter is bound when the caller leaves it out.
Bind(arg, default) == IF arg = NotGiven THEN default ELSE arg

\* repr()/str() of a value inside an f-string: an injective rendering.
Repr(v) == <<"repr", v>>

(***************************************************************************)
(* How a call ends.                                                        *)
(***************************************************************************)
Return(v) == [kind |-> "return", value |-> v]
\* raise e(m): e is the exception class, m the parts of its message.
Raise(e, m) == [kind |-> "raise", error |-> e, message |-> m]
NoOutcome == [kind |-> "none"]

\* d[k] on a value: TypeError on None, KeyError on a missing key.
Subscript(d, k) ==
  IF d[1] # "dict" THEN Raise("TypeError", <<"not subscriptable", d[1]>>)
  ELSE IF k \notin DOMAIN d[2] THEN Raise("KeyError", <<k>>)
  ELSE Return(d[2][k])

\* d[path[1]][path[2]]...: the first failing subscript ends the evaluation.
RECURSIVE SubscriptPath(_, _)
SubscriptPath(d, path) ==
  IF path = <<>> THEN Return(d)
  ELSE LET first == Subscript(d, Head(path))
       IN IF first.kind = "raise" THEN first
          ELSE SubscriptPath(first.value, Tail(path))

(***************************************************************************)
(* LinearClient.__init__ and LinearClient.query                            *)
(***************************************************************************)
NoClient == [constructed |-> FALSE]
LinearClient(api_key) ==
  [constructed |-> TRUE,
   api_key |-> api_key,
   endpoint |-> "https://api.linear.app/graphql",
   headers |-> ("Authorization" :> api_key)
                 @@ ("Content-Type" :> Str("application/json"))]

\* The request that requests.post sends.
Post(self, document, variables) ==
  [url |-> self.endpoint,
   headers |-> self.headers,
   json |-> [query |-> document,
             variables |-> IF Truthy(variables) THEN variables
                           ELSE Dict(EmptyMap)]]

\* query() without response.raise_for_status().
QueryResult_no_raise_for_status(response) ==
  IF response.body = NotJSON THEN Raise("JSONDecodeError", <<"json">>)
  ELSE IF "errors" \in DOMAIN response.body[2]
    THEN Raise("Exception", <<"GraphQL Error: ", Repr(response.body[2].errors)>>)
  ELSE IF "data" \in DOMAIN response.body[2] THEN Return(response.body[2].data)
  ELSE Return(None)

\* query() that looks at "errors" only when the body has no data.
QueryResult_data_before_errors(response) ==
  IF ~response.ok THEN Raise("HTTPError", <<"raise_for_status">>)
  ELSE IF response.body = NotJSON THEN Raise("JSONDecodeError", <<"json">>)
  ELSE IF "data" \in DOMAIN response.body[2] THEN Return(response.body[2].data)
  ELSE IF "errors" \in DOMAIN response.body[2]
    THEN Raise("Exception", <<"GraphQL Error: ", Repr(response.body[2].errors)>>)
  ELSE Return(None)

\* What query() does with the response: raise_for_status, json(), the
\* "errors" test, data.get("data").
QueryResult(response) ==
  IF ~response.ok THEN Raise("HTTPError", <<"raise_for_status">>)
  ELSE IF response.body = NotJSON THEN Raise("JSONDecodeError", <<"json">>)
  ELSE IF "errors" \in DOMAIN response.body[2]
    THEN Raise("Exception", <<"GraphQL Error: ", Repr(response.body[2].errors)>>)
  ELSE IF "data" \in DOMAIN response.body[2] THEN Return(response.body[2].data)
  ELSE Return(None)

\* query(): one POST, then the result; sent is the sequence of requests made.
query(self, document, variables, response) ==
  [sent |-> <<Post(self, document, variables)>>,
   rcvd |-> <<response>>,
   outcome |-> QueryResult(response)]

\* "data = self.query(...); return data[p1][p2]...": the shape shared by the
\* read operations.
QueryAndExtract(self, document, variables, response, path) ==
  LET q == query(self, document, variables, response)
  IN [sent |-> q.sent,
      rcvd |-> q.rcvd,
      outcome |-> IF q.outcome.kind = "raise" THEN q.outcome
                  ELSE SubscriptPath(q.outcome.value, path)]

(***************************************************************************)
(* The read operations.  A document is named by its operation header.      *)
(***************************************************************************)
get_teams(self, a, response) ==
  QueryAndExtract(self, "query { teams }", None, response,
                  <<"teams", "nodes">>)

get_projects(self, a, response) ==
  QueryAndExtract(self, "query GetProjects($teamId: String!)",
                  Dict([teamId |-> a.team_id]), response,
                  <<"team", "projects", "nodes">>)

get_workflow_states(self, a, response) ==
  QueryAndExtract(self, "query GetStates($teamId: String!)",
                  Dict([teamId |-> a.team_id]), response,
                  <<"team", "states", "nodes">>)

get_issue(self, a, response) ==
  QueryAndExtract(self, "query GetIssue($identifier: String!)",
                  Dict([identifier |-> a.identifier]), response,
                  <<"issue">>)

\* search_issues(team_id, query=""): the query variable is always sent.
search_issues_variables(a) ==
  Dict([teamId |-> a.team_id, query |-> Bind(a.query, Str(""))])

search_issues(self, a, response) ==
  QueryAndExtract(self,
                  "query SearchIssues($teamId: String!, $query: String!)",
                  search_issues_variables(a), response,
                  <<"team", "issues", "nodes">>)

(***************************************************************************)
(* The mutations.                                                          *)
(***************************************************************************)
\* A mutation that returns the issue without testing success.
Mutate_success_untested(self, document, variables, response, root, failure) ==
  LET q == query(self, document, variables, response)
  IN [sent |-> q.sent,
      rcvd |-> q.rcvd,
      outcome |-> IF q.outcome.kind = "raise" THEN q.outcome
                  ELSE SubscriptPath(q.outcome.value, <<root, "issue">>)]

\* A mutation that returns the whole payload data[root].
Mutate_returns_payload(self, document, variables, response, root, failure) ==
  LET q == query(self, document, variables, response)
      success == SubscriptPath(q.outcome.value, <<root, "success">>)
  IN [sent |-> q.sent,
      rcvd |-> q.rcvd,
      outcome |-> IF q.outcome.kind = "raise" THEN q.outcome
                  ELSE IF success.kind = "raise" THEN success
                  ELSE IF ~Truthy(success.value)
                    THEN Raise("Exception", <<failure>>)
                  ELSE SubscriptPath(q.outcome.value, <<root>>)]

\* "data = self.query(...); if not data[root]['success']: raise
\* Exception(failure); return data[root]['issue']".
Mutate(self, document, variables, response, root, failure) ==
  LET q == query(self, document, variables, response)
      success == SubscriptPath(q.outcome.value, <<root, "success">>)
  IN [sent |-> q.sent,
      rcvd |-> q.rcvd,
      outcome |-> IF q.outcome.kind = "raise" THEN q.outcome
                  ELSE IF success.kind = "raise" THEN success
                  ELSE IF ~Truthy(success.value)
                    THEN Raise("Exception", <<failure>>)
                  ELSE SubscriptPath(q.outcome.value, <<root, "issue">>)]

\* labels_input = [{"name": name} for name in labels] if labels else []
labels_input(labels) ==
  IF Truthy(labels)
    THEN List([i \in DOMAIN labels[2] |-> Dict([name |-> labels[2][i]])])
    ELSE List(<<>>)

\* create_issue that sets projectId and stateId without "if x:".
create_issue_variables_unguarded(a) ==
  Dict([teamId |-> a.team_id, title |-> a.title,
        description |-> Bind(a.description, Str("")),
        priority |-> Bind(a.priority, Num(0)),
        projectId |-> Bind(a.project_id, None),
        stateId |-> Bind(a.state_id, None)])

\* create_issue that sends labels_input as labelIds when labels are given.
create_issue_variables_with_labels(a) ==
  LET description == Bind(a.description, Str(""))
      priority == Bind(a.priority, Num(0))
      project_id == Bind(a.project_id, None)
      state_id == Bind(a.state_id, None)
      labels == labels_input(Bind(a.labels, None))
  IN Dict((IF Truthy(labels) THEN [labelIds |-> labels] ELSE EmptyMap)
          @@ (IF Truthy(state_id) THEN [stateId |-> state_id] ELSE EmptyMap)
          @@ (IF Truthy(project_id) THEN [projectId |-> project_id]
              ELSE EmptyMap)
          @@ [teamId |-> a.team_id, title |-> a.title,
              description |-> description, priority |-> priority])

\* The variables of create_issue: labels_input is computed and never used.
create_issue_variables(a) ==
  LET description == Bind(a.description, Str(""))
      priority == Bind(a.priority, Num(0))
      project_id == Bind(a.project_id, None)
      state_id == Bind(a.state_id, None)
      unused == labels_input(Bind(a.labels, None))
  IN Dict((IF Truthy(state_id) THEN [stateId |-> state_id] ELSE EmptyMap)
          @@ (IF Truthy(project_id) THEN [projectId |-> project_id]
              ELSE EmptyMap)
          @@ [teamId |-> a.team_id, title |-> a.title,
              description |-> description, priority |-> priority])

create_issue(self, a, response) ==
  Mutate(self, "mutation CreateIssue($teamId: String! $title: String! $description: String $priority: Int $projectId: String $stateId: String $labelIds: [String!])",
         create_issue_variables(a), response,
         "issueCreate", "Failed to create issue")

\* The variables of update_issue: each optional key is set under "if x:".
update_issue_variables(a) ==
  LET state_id == Bind(a.state_id, None)
      title == Bind(a.title, None)
      description == Bind(a.description, None)
  IN Dict((IF Truthy(description) THEN [description |-> description]
           ELSE EmptyMap)
          @@ (IF Truthy(title) THEN [title |-> title] ELSE EmptyMap)
          @@ (IF Truthy(state_id) THEN [stateId |-> state_id] ELSE EmptyMap)
          @@ [issueId |-> a.issue_id])

update_issue(self, a, response) ==
  Mutate(self, "mutation UpdateIssue($issueId: String! $stateId: String $title: String $description: String)",
         update_issue_variables(a), response,
         "issueUpdate", "Failed to update issue")

(***************************************************************************)
(* main(): the command-line entry point.  argv is sys.argv (argv[1] is the *)
(* script name, so Python's sys.argv[i] is argv[i + 1]); environ is        *)
(* os.environ.                                                             *)
(***************************************************************************)
Exit(status, exception) ==
  [kind |-> "exit", status |-> status, exception |-> exception]

\* One run of main: the client it constructed, the requests it POSTed, the
\* lines it printed and how the process ended.
Run(client, call, stdout, outcome) ==
  [client |-> client, sent |-> call.sent, rcvd |-> call.rcvd,
   stdout |-> stdout, outcome |-> outcome]
NoCall == [sent |-> <<>>, rcvd |-> <<>>]

\* os.environ.get(name)
EnvironGet(environ, name) ==
  IF name \in DOMAIN environ THEN Str(environ[name]) ELSE None

\* sys.argv[i]
SysArgv(argv, i) ==
  IF i + 1 \in DOMAIN argv THEN Return(Str(argv[i + 1]))
  ELSE Raise("IndexError", <<"list index out of range">>)

GeneralUsage ==
  << <<"Usage: python linear_sync.py <command> [args]">>,
     <<"Commands:">>,
     <<"  teams - List all teams">>,
     <<"  projects <team_id> - List projects">>,
     <<"  create <team_id> <title> - Create issue">> >>
ProjectsUsage == << <<"Usage: python linear_sync.py projects <team_id>">> >>
CreateUsage == << <<"Usage: python linear_sync.py create <team_id> <title>">> >>
CredentialError ==
  << <<"Error: LINEAR_API_KEY environment variable not set">> >>

\* The f-string fields of one row: row[f] for each f, left to right.
RECURSIVE Fields(_, _)
Fields(row, names) ==
  IF names = <<>> THEN Return(<<>>)
  ELSE LET first == Subscript(row, Head(names))
           rest == Fields(row, Tail(names))
       IN IF first.kind = "raise" THEN first
          ELSE IF rest.kind = "raise" THEN rest
          ELSE Return(<<Repr(first.value)>> \o rest.value)

\* "for row in rows: print(f'...')": the lines printed, and the exception
\* that ended the loop, if any.
RECURSIVE PrintRows(_, _, _)
PrintRows(rows, names, printed) ==
  IF rows = <<>> THEN [stdout |-> printed, outcome |-> Exit(0, NoOutcome)]
  ELSE LET line == Fields(Head(rows), names)
       IN IF line.kind = "raise"
            THEN [stdout |-> printed, outcome |-> Exit(1, line)]
            ELSE PrintRows(Tail(rows), names, Append(printed, line.value))

\* "rows = client.op(...); print(heading); for row in rows: print(...)"
ListCommand(client, call, heading, names) ==
  IF call.outcome.kind = "raise"
    THEN Run(client, call, <<>>, Exit(1, call.outcome))
  ELSE IF call.outcome.value[1] # "list"
    THEN Run(client, call, <<heading>>,
             Exit(1, Raise("TypeError", <<"not iterable">>)))
  ELSE LET p == PrintRows(call.outcome.value[2], names, <<heading>>)
       IN Run(client, call, p.stdout, p.outcome)

\* The credential test as "api_key is None": an empty value passes.
NoCredential_unset_only(api_key) == api_key = None
\* The create test off by one: "create <team_id>" passes.
CreateLacksArgs_off_by_one(argv) == Len(argv) < 3

\* The guards of main, in the order the code tests them.
NoCommand(argv) == Len(argv) < 2
NoCredential(api_key) == ~Truthy(api_key)
ProjectsLacksArgs(argv) == Len(argv) < 3
CreateLacksArgs(argv) == Len(argv) < 4

MainTeams(client, response) ==
  ListCommand(client, get_teams(client, [none |-> None], response),
              <<"Teams:">>, <<"name", "id", "key">>)

MainProjects(client, argv, response) ==
  IF ProjectsLacksArgs(argv)
    THEN Run(client, NoCall, ProjectsUsage, Exit(1, NoOutcome))
  ELSE LET team_id == SysArgv(argv, 2)
       IN IF team_id.kind = "raise"
            THEN Run(client, NoCall, <<>>, Exit(1, team_id))
            ELSE ListCommand(client,
                   get_projects(client, [team_id |-> team_id.value], response),
                   <<"Projects:">>, <<"name", "id">>)

MainCreate(client, argv, response) ==
  IF CreateLacksArgs(argv)
    THEN Run(client, NoCall, CreateUsage, Exit(1, NoOutcome))
  ELSE LET team_id == SysArgv(argv, 2)
           title == SysArgv(argv, 3)
           call == create_issue(client,
                     [team_id |-> team_id.value, title |-> title.value,
                      description |-> Str("Created via API"),
                      priority |-> NotGiven, project_id |-> NotGiven,
                      state_id |-> NotGiven, labels |-> NotGiven],
                     response)
           identifier == Subscript(call.outcome.value, "identifier")
           url == Subscript(call.outcome.value, "url")
       IN IF team_id.kind = "raise"
            THEN Run(client, NoCall, <<>>, Exit(1, team_id))
          ELSE IF title.kind = "raise"
            THEN Run(client, NoCall, <<>>, Exit(1, title))
          ELSE IF call.outcome.kind = "raise"
            THEN Run(client, call, <<>>, Exit(1, call.outcome))
          ELSE IF identifier.kind = "raise"
            THEN Run(client, call, <<>>, Exit(1, identifier))
          ELSE IF url.kind = "raise"
            THEN Run(client, call,
                     << <<"Created issue: ", Repr(identifier.value)>> >>,
                     Exit(1, url))
          ELSE Run(client, call,
                   << <<"Created issue: ", Repr(identifier.value)>>,
                      <<"URL: ", Repr(url.value)>> >>,
                   Exit(0, NoOutcome))

main(argv, environ, response) ==
  IF NoCommand(argv)
    THEN Run(NoClient, NoCall, GeneralUsage, Exit(1, NoOutcome))
  ELSE LET api_key == EnvironGet(environ, "LINEAR_API_KEY")
           client == LinearClient(api_key)
           command == argv[2]
       IN IF NoCredential(api_key)
            THEN Run(NoClient, NoCall, CredentialError, Exit(1, NoOutcome))
          ELSE IF command = "teams" THEN MainTeams(client, response)
          ELSE IF command = "projects"
            THEN MainProjects(client, argv, response)
          ELSE IF command = "create" THEN MainCreate(client, argv, response)
          ELSE Run(client, NoCall,
                   << <<"Unknown command: ", Repr(Str(command))>> >>,
                   Exit(1, NoOutcome))

(***************************************************************************)
(* Bounds and input domains.                                               *)
(***************************************************************************)
\* Longest labels list a caller passes.
MaxLabels == 1
\* Most command-line arguments after the script name.
MaxArgs == 3

RECURSIVE SeqsUpTo(_, _)
SeqsUpTo(S, n) ==
  IF n = 0 THEN {<<>>}
  ELSE LET shorter == SeqsUpTo(S, n - 1)
       IN shorter \cup {Append(s, x) : s \in shorter, x \in S}

ApiKey == "lin_api_key"
OptionalStr == {NotGiven, Str(""), Str("x")}
Priorities == {NotGiven, Num(0), Num(2)}
LabelNames == {Str("bug"), Str("ui")}
Labels == {NotGiven, None} \cup {List(s) : s \in SeqsUpTo(LabelNames, MaxLabels)}

QueryArgs ==
  [document : {"query { viewer { id } }"},
   variables : {NotGiven, None, Dict(EmptyMap), Dict([id |-> Str("i1")])}]
NoArgs == {[none |-> None]}
TeamArgs == {[team_id |-> Str("T1")]}
IssueArgs == {[identifier |-> Str("ENG-1")]}
SearchArgs == [team_id : {Str("T1")}, query : OptionalStr]
CreateArgs ==
  [team_id : {Str("T1")}, title : {Str("Fix bug")},
   description : {NotGiven, Str("steps")}, priority : Priorities,
   project_id : OptionalStr, state_id : OptionalStr, labels : Labels]
UpdateArgs ==
  [issue_id : {Str("i1")}, state_id : OptionalStr, title : OptionalStr,
   description : OptionalStr]

Words == {"teams", "projects", "create", "T1", "Fix bug"}
Argvs == {<<"linear_sync.py">> \o s : s \in SeqsUpTo(Words, MaxArgs)}
Environs == {EmptyMap, [LINEAR_API_KEY |-> ""], [LINEAR_API_KEY |-> ApiKey]}

(***************************************************************************)
(* The responses a transport can hand back: an HTTP status that            *)
(* raise_for_status accepts or rejects, and a body.                        *)
(***************************************************************************)
\* {path[1]: {path[2]: ... leaf}}
RECURSIVE Nest(_, _)
Nest(path, leaf) ==
  IF path = <<>> THEN leaf
  ELSE Dict(Head(path) :> Nest(Tail(path), leaf))

IssueA ==
  Dict([id |-> Str("i1"), identifier |-> Str("ENG-1"),
        title |-> Str("Fix bug"), url |-> Str("https://linear.app/ENG-1")])
IssueB ==
  Dict([id |-> Str("i2"), identifier |-> Str("ENG-2"),
        title |-> Str("Fix bug"), url |-> Str("https://linear.app/ENG-2")])
TeamA == Dict([id |-> Str("T1"), name |-> Str("Core"), key |-> Str("ENG")])
TeamB == Dict([id |-> Str("T2"), name |-> Str("Ops")])
ProjectA == Dict([id |-> Str("P1"), name |-> Str("Launch"),
                  description |-> Str(""), state |-> Str("started")])
StateA == Dict([id |-> Str("S1"), name |-> Str("Todo"),
                type |-> Str("unstarted"), color |-> Str("#aaa")])

\* The data values answering a read whose result is data[path...].
ReadData(path, leaves) ==
  {None, Dict(EmptyMap), Nest(<<Head(path)>>, None)}
    \cup {Nest(path, leaf) : leaf \in leaves}

\* The data values answering a mutation whose payload is data[root].
MutationData(root) ==
  {None, Dict(EmptyMap)}
    \cup {Nest(<<root>>, Dict(payload)) :
            payload \in {[success |-> Bool(TRUE), issue |-> IssueA],
                         [success |-> Bool(TRUE), issue |-> IssueB],
                         [success |-> Bool(TRUE)],
                         [success |-> Bool(FALSE), issue |-> IssueA],
                         [success |-> Bool(FALSE), issue |-> None],
                         [success |-> Bool(FALSE)]}}

ErrorLists ==
  {List(<<>>), List(<<Dict([message |-> Str("Entity not found")])>>)}

Bodies(datas) ==
  {NotJSON}
    \cup {Dict(e @@ d) :
            e \in {EmptyMap} \cup {[errors |-> l] : l \in ErrorLists},
            d \in {EmptyMap} \cup {[data |-> v] : v \in datas}}

Responses(datas) == [ok : BOOLEAN, body : Bodies(datas)]

TeamsResponses ==
  Responses(ReadData(<<"teams", "nodes">>,
                     {List(<<>>), List(<<TeamA>>), List(<<TeamA, TeamB>>)}))
ProjectsResponses ==
  Responses(ReadData(<<"team", "projects", "nodes">>,
                     {List(<<>>), List(<<ProjectA>>)}))
StatesResponses ==
  Responses(ReadData(<<"team", "states", "nodes">>,
                     {List(<<>>), List(<<StateA>>)}))
IssueResponses == Responses(ReadData(<<"issue">>, {IssueA, IssueB}))
SearchResponses ==
  Responses(ReadData(<<"team", "issues", "nodes">>,
                     {List(<<>>), List(<<IssueA>>), List(<<IssueA, IssueB>>)}))
CreateResponses == Responses(MutationData("issueCreate"))
UpdateResponses == Responses(MutationData("issueUpdate"))

\* The responses main's command can meet (the command decides the request).
MainResponses(argv) ==
  IF Len(argv) < 2 THEN TeamsResponses
  ELSE IF argv[2] = "projects" THEN ProjectsResponses
  ELSE IF argv[2] = "create" THEN CreateResponses
  ELSE TeamsResponses

(***************************************************************************)
(* State.                                                                  *)
(***************************************************************************)
VARIABLES
  client,   \* the LinearClient object in use, NoClient before construction
  call,     \* the operation last invoked and its arguments
  sent,     \* the requests POSTed by that invocation, in order
  rcvd,     \* the responses the transport returned to them
  outcome,  \* how the invocation ended
  stdout,   \* the lines main printed
  earlier   \* the create_issue invocation that call repeats, if it does

vars == <<client, call, sent, rcvd, outcome, stdout, earlier>>

NoInvocation == [op |-> "none"]
Invocation(op, a) == [op |-> op, args |-> a]
Snapshot == [call |-> call, sent |-> sent, rcvd |-> rcvd, outcome |-> outcome]

Init ==
  /\ client = NoClient
  /\ call = NoInvocation
  /\ sent = <<>>
  /\ rcvd = <<>>
  /\ outcome = NoOutcome
  /\ stdout = <<>>
  /\ earlier = NoInvocation

\* No invocation is in progress: the caller holds no pending result.
Idle == call = NoInvocation

\* client = LinearClient(api_key), in a program that uses the class.
Construct ==
  /\ Idle
  /\ ~client.constructed
  /\ client' = LinearClient(Str(ApiKey))
  /\ UNCHANGED <<call, sent, rcvd, outcome, stdout, earlier>>

\* A method call on the constructed client: r is what the method did.
Invoke(op, a, r) ==
  /\ call' = Invocation(op, a)
  /\ sent' = r.sent
  /\ rcvd' = r.rcvd
  /\ outcome' = r.outcome
  /\ stdout' = <<>>
  /\ UNCHANGED client

\* client.query(document, variables) called directly.
Query ==
  /\ Idle
  /\ client.constructed
  /\ \E a \in QueryArgs, response \in IssueResponses :
    /\ Invoke("query", a,
              query(client, a.document, Bind(a.variables, None), response))
    /\ earlier' = NoInvocation

GetTeams ==
  /\ Idle
  /\ client.constructed
  /\ \E a \in NoArgs, response \in TeamsResponses :
    /\ Invoke("get_teams", a, get_teams(client, a, response))
    /\ earlier' = NoInvocation

GetProjects ==
  /\ Idle
  /\ client.constructed
  /\ \E a \in TeamArgs, response \in ProjectsResponses :
    /\ Invoke("get_projects", a, get_projects(client, a, response))
    /\ earlier' = NoInvocation

GetWorkflowStates ==
  /\ Idle
  /\ client.constructed
  /\ \E a \in TeamArgs, response \in StatesResponses :
    /\ Invoke("get_workflow_states", a,
              get_workflow_states(client, a, response))
    /\ earlier' = NoInvocation

GetIssue ==
  /\ Idle
  /\ client.constructed
  /\ \E a \in IssueArgs, response \in IssueResponses :
    /\ Invoke("get_issue", a, get_issue(client, a, response))
    /\ earlier' = NoInvocation

SearchIssues ==
  /\ Idle
  /\ client.constructed
  /\ \E a \in SearchArgs, response \in SearchResponses :
    /\ Invoke("search_issues", a, search_issues(client, a, response))
    /\ earlier' = NoInvocation

CreateIssue ==
  /\ Idle
  /\ client.constructed
  /\ \E a \in CreateArgs, response \in CreateResponses :
    /\ Invoke("create_issue", a, create_issue(client, a, response))
    /\ earlier' = NoInvocation

\* The caller makes its create_issue call a second time with other labels, and
\* the transport answers as before.
CreateIssueAgain ==
  /\ call.op = "create_issue"
  /\ earlier = NoInvocation
  /\ \E labels \in Labels :
    LET a == [call.args EXCEPT !.labels = labels]
    IN /\ Invoke("create_issue", a, create_issue(client, a, rcvd[1]))
       /\ earlier' = Snapshot

UpdateIssue ==
  /\ Idle
  /\ client.constructed
  /\ \E a \in UpdateArgs, response \in UpdateResponses :
    /\ Invoke("update_issue", a, update_issue(client, a, response))
    /\ earlier' = NoInvocation

\* One run of the script from the command line, in a fresh process.
Main ==
  /\ Idle
  /\ ~client.constructed
  /\ \E argv \in Argvs, environ \in Environs :
    \E response \in MainResponses(argv) :
      LET r == main(argv, environ, response)
      IN /\ client' = r.client
         /\ call' = Invocation("main", [argv |-> argv, environ |-> environ])
         /\ sent' = r.sent
         /\ rcvd' = r.rcvd
         /\ outcome' = r.outcome
         /\ stdout' = r.stdout
         /\ earlier' = NoInvocation

\* The invocation is over: its result goes to the caller, and a process that
\* ran main is gone with the client it built.
Finish ==
  /\ ~Idle
  /\ client' = IF call.op = "main" THEN NoClient ELSE client
  /\ call' = NoInvocation
  /\ sent' = <<>>
  /\ rcvd' = <<>>
  /\ outcome' = NoOutcome
  /\ stdout' = <<>>
  /\ earlier' = NoInvocation

Next ==
  \/ Construct
  \/ Query
  \/ GetTeams
  \/ GetProjects
  \/ GetWorkflowStates
  \/ GetIssue
  \/ SearchIssues
  \/ CreateIssue
  \/ CreateIssueAgain
  \/ UpdateIssue
  \/ Main
  \/ Finish

Spec == Init /\ [][Next]_vars

(***************************************************************************)
(* Vocabulary of the properties.                                           *)
(***************************************************************************)
Operations ==
  {"get_teams", "get_projects", "get_workflow_states", "create_issue",
   "update_issue", "get_issue", "search_issues"}

\* The three error kinds of the specification, as the code raises them.
TransportError(o) == o.kind = "raise" /\ o.error = "HTTPError"
RemoteAPIError(o) ==
  o.kind = "raise" /\ o.error = "Exception" /\ o.message[1] = "GraphQL Error: "
OperationFailedError(o) ==
  /\ o.kind = "raise"
  /\ o.error = "Exception"
  /\ o.message \in {<<"Failed to create issue">>, <<"Failed to update issue">>}

\* An operation was called and POSTed at least once.
Exchanged == call.op \in Operations /\ Len(sent) >= 1 /\ Len(rcvd) >= 1
\* The variables mapping of the (first) request body.
SentVariables == sent[1].json.variables[2]
\* The response: status accepted, body a JSON object.
Decoded == rcvd[1].ok /\ rcvd[1].body[1] = "dict"
Body == rcvd[1].body[2]
HasErrorsKey == "errors" \in DOMAIN Body
HasErrors == HasErrorsKey /\ Len(Body.errors[2]) > 0

\* Whether v[path[1]][path[2]]... exists, and its value.
RECURSIVE HasPath(_, _)
HasPath(v, path) ==
  \/ path = <<>>
  \/ /\ v[1] = "dict"
     /\ Head(path) \in DOMAIN v[2]
     /\ HasPath(v[2][Head(path)], Tail(path))
RECURSIVE At(_, _)
At(v, path) == IF path = <<>> THEN v ELSE At(v[2][Head(path)], Tail(path))

\* The parameters a caller must supply, and the variable keys they become.
RequiredParams(op) ==
  CASE op = "create_issue" -> {"team_id", "title"}
    [] op = "update_issue" -> {"issue_id"}
    [] op = "search_issues" -> {"team_id"}
RequiredKeys(op) ==
  CASE op = "create_issue" -> {"teamId", "title"}
    [] op = "update_issue" -> {"issueId"}
    [] op = "search_issues" -> {"teamId"}
HasOptionalInputs == call.op \in {"create_issue", "update_issue", "search_issues"}
OnlyRequiredSupplied ==
  /\ HasOptionalInputs
  /\ \A p \in DOMAIN call.args \ RequiredParams(call.op) :
       call.args[p] = NotGiven
NoNullSent == \A k \in DOMAIN SentVariables : SentVariables[k] # None

C2_TransportFailureRaises ==
  (Exchanged /\ ~rcvd[1].ok)
    => /\ TransportError(outcome)
       /\ Len(sent) = 1
       /\ Len(rcvd) = 1

C2_Witness ==
  /\ Exchanged
  /\ call.op = "create_issue"
  /\ ~rcvd[1].ok
  /\ rcvd[1].body[1] = "dict"
  /\ HasErrors
  /\ HasPath(rcvd[1].body, <<"data", "issueCreate", "issue">>)
  /\ TransportError(outcome)

(***************************************************************************)
(* C3: when the status is accepted and the decoded body holds a non-empty  *)
(* errors list, every operation raises RemoteAPIError carrying that list   *)
(* and returns nothing, even when data has the expected shape.             *)
(***************************************************************************)
C3_ErrorsListRaises ==
  (Exchanged /\ Decoded /\ HasErrors)
    => /\ RemoteAPIError(outcome)
       /\ outcome.message = <<"GraphQL Error: ", Repr(Body.errors)>>

C3_Witness ==
  /\ Exchanged
  /\ call.op = "get_issue"
  /\ Decoded
  /\ HasErrors
  /\ HasPath(rcvd[1].body, <<"data", "issue", "identifier">>)
  /\ RemoteAPIError(outcome)

(***************************************************************************)
(* C4: when create issue or update issue receives an accepted, error-free  *)
(* response whose mutation payload has success = false, the call raises    *)
(* OperationFailedError and returns no issue, even when the payload holds  *)
(* an issue.                                                               *)
(***************************************************************************)
MutationRoot ==
  IF call.op = "create_issue" THEN "issueCreate" ELSE "issueUpdate"
ReportsFailure ==
  /\ Exchanged
  /\ call.op \in {"create_issue", "update_issue"}
  /\ Decoded
  /\ ~HasErrorsKey
  /\ HasPath(rcvd[1].body, <<"data", MutationRoot, "success">>)
  /\ At(rcvd[1].body, <<"data", MutationRoot, "success">>) = Bool(FALSE)

C4_SuccessFalseRaises ==
  ReportsFailure
    => /\ OperationFailedError(outcome)
       /\ outcome.message =
            IF call.op = "create_issue" THEN <<"Failed to create issue">>
            ELSE <<"Failed to update issue">>

C4_Witness ==
  /\ ReportsFailure
  /\ call.op = "update_issue"
  /\ HasPath(rcvd[1].body, <<"data", "issueUpdate", "issue", "identifier">>)
  /\ OperationFailedError(outcome)

(***************************************************************************)
(* C5: on a well-formed success response (status accepted, no errors,      *)
(* success = true for the mutations) each operation returns exactly its    *)
(* designated sub-object of data: teams.nodes, team.projects.nodes,        *)
(* team.states.nodes, issueCreate.issue, issueUpdate.issue, issue,         *)
(* team.issues.nodes.                                                      *)
(***************************************************************************)
Designated(op) ==
  CASE op = "get_teams" -> <<"data", "teams", "nodes">>
    [] op = "get_projects" -> <<"data", "team", "projects", "nodes">>
    [] op = "get_workflow_states" -> <<"data", "team", "states", "nodes">>
    [] op = "create_issue" -> <<"data", "issueCreate", "issue">>
    [] op = "update_issue" -> <<"data", "issueUpdate", "issue">>
    [] op = "get_issue" -> <<"data", "issue">>
    [] op = "search_issues" -> <<"data", "team", "issues", "nodes">>
WellFormedSuccess ==
  /\ Exchanged
  /\ Decoded
  /\ ~HasErrorsKey
  /\ HasPath(rcvd[1].body, Designated(call.op))
  /\ call.op \in {"create_issue", "update_issue"} =>
       /\ HasPath(rcvd[1].body, <<"data", MutationRoot, "success">>)
       /\ At(rcvd[1].body, <<"data", MutationRoot, "success">>) = Bool(TRUE)

C5_ReturnsDesignatedSubObject ==
  WellFormedSuccess
    => /\ outcome.kind = "return"
       /\ outcome.value = At(rcvd[1].body, Designated(call.op))
       /\ Len(sent) = 1

C5_Witness ==
  /\ WellFormedSuccess
  /\ call.op = "create_issue"
  /\ call.args.team_id = Str("T1")
  /\ call.args.title = Str("Fix bug")
  /\ outcome.kind = "return"
  /\ outcome.value[2].identifier = Str("ENG-2")
  /\ outcome.value[2].title = Str("Fix bug")
  /\ outcome.value[2].url = Str("https://linear.app/ENG-2")

(***************************************************************************)
(* The command line.                                                       *)
(***************************************************************************)
Ran == call.op = "main"
Terminated(status) == outcome.kind = "exit" /\ outcome.status = status
FailedExit == outcome.kind = "exit" /\ outcome.status # 0
CredentialMissing ==
  \/ "LINEAR_API_KEY" \notin DOMAIN call.args.environ
  \/ call.args.environ["LINEAR_API_KEY"] = ""
\* "create" alone or "create <team_id>": not both of its arguments.
CreateWithoutBothArgs ==
  /\ Ran
  /\ Len(call.args.argv) \in {2, 3}
  /\ call.args.argv[2] = "create"
IsUsage(line) == line[1] \in {"Usage: python linear_sync.py create <team_id> <title>",
                               "Usage: python linear_sync.py <command> [args]"}
PrintsUsage == \E i \in DOMAIN stdout : IsUsage(stdout[i])

(***************************************************************************)
(* C6 as stated: a run of the create subcommand without both of its        *)
(* arguments prints a usage string, ends with a non-zero status and POSTs  *)
(* nothing.                                                                *)
(***************************************************************************)
C6_CreateUsageAlways ==
  CreateWithoutBothArgs
    => /\ PrintsUsage
       /\ FailedExit
       /\ sent = <<>>

(***************************************************************************)
(* C6 amended: such a run ends with a non-zero status and POSTs nothing;   *)
(* it prints the create usage string when the credential is set, and the   *)
(* credential error, with no usage string, when the credential is missing. *)
(***************************************************************************)
C6_CreateUsageWhenCredentialSet ==
  CreateWithoutBothArgs
    => /\ FailedExit
       /\ sent = <<>>
       /\ stdout = IF CredentialMissing THEN CredentialError ELSE CreateUsage

C6_Witness ==
  /\ CreateWithoutBothArgs
  /\ call.args.argv = <<"linear_sync.py", "create", "T1">>
  /\ ~CredentialMissing
  /\ stdout = CreateUsage
  /\ Terminated(1)

(***************************************************************************)
(* C7: a run in which the credential variable is unset or empty ends with  *)
(* a non-zero status with no client constructed and nothing POSTed,        *)
(* whatever the subcommand and arguments.                                  *)
(***************************************************************************)
C7_MissingCredentialStopsEarly ==
  (Ran /\ CredentialMissing)
    => /\ FailedExit
       /\ ~client.constructed
       /\ sent = <<>>

C7_Witness ==
  /\ Ran
  /\ call.args.environ = [LINEAR_API_KEY |-> ""]
  /\ call.args.argv = <<"linear_sync.py", "create", "T1", "Fix bug">>
  /\ stdout = CredentialError
  /\ Terminated(1)

(***************************************************************************)
(* C8 as stated: query (the execute primitive) raises RemoteAPIError only  *)
(* for a non-empty errors list: on an accepted response whose body has no  *)
(* errors key or an empty errors list it raises nothing and returns the    *)
(* body's data, None when data is absent.                                  *)
(***************************************************************************)
C8_EmptyErrorsListReturnsData ==
  (call.op = "query" /\ Len(rcvd) = 1 /\ Decoded /\ ~HasErrors)
    => /\ outcome.kind = "return"
       /\ outcome.value =
            IF "data" \in DOMAIN Body THEN Body.data ELSE None

(***************************************************************************)
(* C9 as stated: update issue sends stateId, title and description each    *)
(* with the caller's value exactly when the caller supplied it, the empty  *)
(* string included; issueId is always sent and no other key is.            *)
(***************************************************************************)
UpdateKey(p) ==
  CASE p = "state_id" -> "stateId"
    [] p = "title" -> "title"
    [] p = "description" -> "description"
C9_UpdateKeyIffSupplied ==
  (call.op = "update_issue" /\ Len(sent) >= 1)
    => /\ "issueId" \in DOMAIN SentVariables
       /\ SentVariables.issueId = call.args.issue_id
       /\ DOMAIN SentVariables \subseteq
            {"issueId", "stateId", "title", "description"}
       /\ \A p \in {"state_id", "title", "description"} :
            /\ UpdateKey(p) \in DOMAIN SentVariables
                 <=> call.args[p] # NotGiven
            /\ UpdateKey(p) \in DOMAIN SentVariables
                 => SentVariables[UpdateKey(p)] = call.args[p]

(***************************************************************************)
(* C10: the labels passed to create issue have no effect: two create issue *)
(* calls that differ only in labels, answered by the same response, send   *)
(* the same request body and end with the same result or error, and no     *)
(* create issue request holds a labelIds key.                              *)
(***************************************************************************)
Repeated == earlier # NoInvocation
C10_LabelsHaveNoEffect ==
  /\ (call.op = "create_issue" /\ Len(sent) >= 1)
       => "labelIds" \notin DOMAIN SentVariables
  /\ Repeated
       => /\ [call.args EXCEPT !.labels = NotGiven]
              = [earlier.call.args EXCEPT !.labels = NotGiven]
          /\ rcvd = earlier.rcvd
          /\ sent = earlier.sent
          /\ outcome = earlier.outcome

C10_Witness ==
  /\ Repeated
  /\ earlier.call.args.labels = NotGiven
  /\ call.args.labels = List(<<Str("bug")>>)
  /\ rcvd[1].ok
  /\ outcome.kind = "return"
  /\ outcome = earlier.outcome

====
